---- MODULE Spec2Model ----
(***************************************************************************)
(* Model of the slop-mcp bootstrap launcher (src/src/slop_mcp/__init__.py) *)
(* and of the orchestrator core that spec.md defines behind the binary.    *)
(*                                                                         *)
(* Strings are sequences of one-character strings, so that lower(),        *)
(* startswith() and f-string concatenation are computed character by       *)
(* character as Python computes them.                                      *)
(***************************************************************************)
EXTENDS Integers, Sequences, FiniteSets

(* ------------------------------ bounds -------------------------------- *)
\* number of main() invocations on the same machine in one behaviour
MaxRuns == 2
\* longest generated version string
MaxVerLen == 2
\* longest sys.argv[1:]
MaxArgs == 1
\* longest response body
MaxBody == 2
\* client request ids in use at once
MaxReqIds == 2
\* failed reconnect attempts after which a Degraded upstream is closed
RetryBudget == 2
\* maximum in-flight requests per upstream
MaxInFlight == 1

(* ------------------------- string primitives -------------------------- *)
UpperChars == <<"A","B","C","D","E","F","G","H","I","J","K","L","M",
                "N","O","P","Q","R","S","T","U","V","W","X","Y","Z">>
LowerChars == <<"a","b","c","d","e","f","g","h","i","j","k","l","m",
                "n","o","p","q","r","s","t","u","v","w","x","y","z">>

\* str.lower() on one character
LowerChar(c) ==
    IF \E i \in 1..Len(UpperChars) : UpperChars[i] = c
    THEN LowerChars[CHOOSE i \in 1..Len(UpperChars) : UpperChars[i] = c]
    ELSE c

\* str.lower()
Lower(s) == [i \in 1..Len(s) |-> LowerChar(s[i])]

\* str.startswith(p)
StartsWith(s, p) == Len(s) >= Len(p) /\ SubSeq(s, 1, Len(p)) = p

\* str.endswith(p)
EndsWith(s, p) == Len(s) >= Len(p) /\ SubSeq(s, Len(s) - Len(p) + 1, Len(s)) = p

(* --------------------------- string literals -------------------------- *)
s_darwin  == <<"d","a","r","w","i","n">>
s_linux   == <<"l","i","n","u","x">>
s_windows == <<"w","i","n","d","o","w","s">>
s_x86_64  == <<"x","8","6","_","6","4">>
s_amd64   == <<"a","m","d","6","4">>
s_arm64   == <<"a","r","m","6","4">>
s_aarch64 == <<"a","a","r","c","h","6","4">>
s_exe     == <<".","e","x","e">>
s_dash    == <<"-">>
s_v       == <<"v">>
\* the literal "Windows" of download_binary's platform test
s_Windows == <<"W","i","n","d","o","w","s">>

\* REPO = "standardbeagle/slop-mcp"
REPO == <<"s","t","a","n","d","a","r","d","b","e","a","g","l","e","/",
          "s","l","o","p","-","m","c","p">>
\* BINARY_NAME = "slop-mcp"
BINARY_NAME == <<"s","l","o","p","-","m","c","p">>
\* __version__ = "0.0.0"
VERSION_0 == <<"0",".","0",".","0">>

\* Path.home() / ".cache" / "slop-mcp"  ("~" stands for the home directory)
CacheDir == <<"~","/",".","c","a","c","h","e","/">> \o BINARY_NAME

UrlHead == <<"h","t","t","p","s",":","/","/","g","i","t","h","u","b",".","c","o","m","/">>
UrlReleases == <<"/","r","e","l","e","a","s","e","s","/","d","o","w","n","l","o","a","d","/">>

(* ------------------------- get_platform_info -------------------------- *)
NoStr == <<>>

\* the goos branch chain of get_platform_info
GoosOf(system) ==
    IF system = s_darwin THEN s_darwin
    ELSE IF system = s_linux THEN s_linux
    ELSE IF system = s_windows THEN s_windows
    ELSE NoStr

\* the goarch branch chain of get_platform_info
GoarchOf(machine) ==
    IF machine \in {s_x86_64, s_amd64} THEN s_amd64
    ELSE IF machine \in {s_arm64, s_aarch64} THEN s_arm64
    ELSE NoStr

\* get_platform_info() without the two .lower() calls
get_platform_info_NoLower(rawSystem, rawMachine) ==
    IF GoosOf(rawSystem) = NoStr
    THEN [ok |-> FALSE, err |-> "Unsupported platform", arg |-> rawSystem,
          goos |-> NoStr, goarch |-> NoStr]
    ELSE IF GoarchOf(rawMachine) = NoStr
    THEN [ok |-> FALSE, err |-> "Unsupported architecture", arg |-> rawMachine,
          goos |-> NoStr, goarch |-> NoStr]
    ELSE [ok |-> TRUE, err |-> "", arg |-> NoStr,
          goos |-> GoosOf(rawSystem), goarch |-> GoarchOf(rawMachine)]

\* get_platform_info(): the pair, or the RuntimeError it raises
get_platform_info(rawSystem, rawMachine) ==
    LET system  == Lower(rawSystem)
        machine == Lower(rawMachine)
    IN  IF GoosOf(system) = NoStr
        THEN [ok |-> FALSE, err |-> "Unsupported platform", arg |-> system,
              goos |-> NoStr, goarch |-> NoStr]
        ELSE IF GoarchOf(machine) = NoStr
        THEN [ok |-> FALSE, err |-> "Unsupported architecture", arg |-> machine,
              goos |-> NoStr, goarch |-> NoStr]
        ELSE [ok |-> TRUE, err |-> "", arg |-> NoStr,
              goos |-> GoosOf(system), goarch |-> GoarchOf(machine)]

\* ext = ".exe" if goos == "windows" else ""
ExtOf(goos) == IF goos = s_windows THEN s_exe ELSE <<>>

\* a cache file name that leaves the version out
CacheFileName_NoVersion(version, goos, goarch) ==
    BINARY_NAME \o s_dash \o goos \o s_dash \o goarch \o ExtOf(goos)

\* f"{BINARY_NAME}-{__version__}-{goos}-{goarch}{ext}"
CacheFileName(version, goos, goarch) ==
    BINARY_NAME \o s_dash \o version \o s_dash \o goos \o s_dash \o goarch \o ExtOf(goos)

\* get_binary_path() for a supported platform: cache_dir / file name
get_binary_path(version, goos, goarch) ==
    CacheDir \o <<"/">> \o CacheFileName(version, goos, goarch)

\* the release tag: the version, prefixed with "v" unless it starts with "v"
ReleaseTag(version) == IF ~StartsWith(version, s_v) THEN s_v \o version ELSE version

\* f"{BINARY_NAME}-{goos}-{goarch}{ext}"
AssetName(goos, goarch) ==
    BINARY_NAME \o s_dash \o goos \o s_dash \o goarch \o ExtOf(goos)

\* get_download_url() for a supported platform
get_download_url(version, goos, goarch) ==
    UrlHead \o REPO \o UrlReleases \o ReleaseTag(version) \o <<"/">> \o AssetName(goos, goarch)

(* ------------------------------ st_mode -------------------------------- *)
\* stat.S_IXUSR, stat.S_IXGRP, stat.S_IXOTH
S_IXUSR == 64
S_IXGRP == 8
S_IXOTH == 1
\* permission bits of a regular file created by open(..., "wb"): 0o666
CreateMode == 438
\* number of permission bits
ModeBits == 9

RECURSIVE Pow2(_)
Pow2(k) == IF k = 0 THEN 1 ELSE 2 * Pow2(k - 1)

Bit(n, k) == (n \div Pow2(k)) % 2

RECURSIVE OrFrom(_, _, _)
OrFrom(a, b, k) ==
    IF k = ModeBits THEN 0
    ELSE (IF Bit(a, k) = 1 \/ Bit(b, k) = 1 THEN Pow2(k) ELSE 0) + OrFrom(a, b, k + 1)

\* the | operator on mode words
BitOr(a, b) == OrFrom(a, b, 0)

RECURSIVE AndNotFrom(_, _, _)
AndNotFrom(a, b, k) ==
    IF k = ModeBits THEN 0
    ELSE (IF Bit(a, k) = 1 /\ Bit(b, k) = 0 THEN Pow2(k) ELSE 0) + AndNotFrom(a, b, k + 1)

\* mode of a newly created file under a umask: 0o666 & ~umask
NewFileMode(umask) == AndNotFrom(CreateMode, umask, 0)

\* a chmod that sets the owner's execute bit only
ChmodMode_UserOnly(st_mode) == BitOr(st_mode, S_IXUSR)

\* dest.stat().st_mode | stat.S_IXUSR | stat.S_IXGRP | stat.S_IXOTH
ChmodMode(st_mode) == BitOr(BitOr(BitOr(st_mode, S_IXUSR), S_IXGRP), S_IXOTH)

(* ------------------------------- inputs -------------------------------- *)
\* values of platform.system()
Systems == { <<"L","i","n","u","x">>, <<"D","a","r","w","i","n">>, s_Windows,
             <<"F","r","e","e","B","S","D">> }
\* values of platform.machine()
Machines == { s_x86_64, <<"A","M","D","6","4">>, s_arm64, s_aarch64,
              <<"i","6","8","6">> }
VerChars == {"v", "1", "-"}
SeqsUpTo(S, n) == UNION { [1..k -> S] : k \in 0..n }
\* values of __version__: the shipped one and every short string over VerChars
Versions == {VERSION_0} \cup SeqsUpTo(VerChars, MaxVerLen)
\* versions installed on the machines whose runs are explored
RunVersions == {VERSION_0, <<"v", "1">>}
\* values of sys.argv[1:]
ArgVals == {"x", "y"}
ArgLists == SeqsUpTo(ArgVals, MaxArgs)
\* response bodies: <<>>, <<1>>, <<1,2>>, ...
Bodies == { [i \in 1..n |-> i] : n \in 0..MaxBody }
\* final HTTP status codes (redirects are followed)
StatusCodes == {200, 302, 404, 503}
\* Response.is_success
is_success(status) == status >= 200 /\ status <= 299
\* process umasks: 0o022, 0o077
Umasks == {18, 63}
\* return codes of the child process
ReturnCodes == {0, 1, -9}

NoFile == [exists |-> FALSE, content |-> <<>>, mode |-> 0]
NoResponse == [status |-> 0, content |-> <<>>]
NoResult == [kind |-> "none", code |-> 0]
NoPlat == [ok |-> FALSE, err |-> "", arg |-> NoStr, goos |-> NoStr, goarch |-> NoStr]

(* -------------------------------- state -------------------------------- *)
VARIABLES
    system,          \* platform.system()
    machine,         \* platform.machine()
    version,         \* __version__
    cache_dir,       \* whether ~/.cache/slop-mcp exists
    file,            \* the file at get_binary_path() on disk
    pc,              \* position of the current main() run
    runs,            \* main() invocations started so far
    args,            \* sys.argv[1:] of the current run
    plat,            \* get_binary_path's locals goos, goarch (get_platform_info())
    binary_path,     \* ensure_binary's local binary_path
    url,             \* download_binary's local url
    response,        \* download_binary's local response
    err,             \* the exception in flight, "" when none
    ensure,          \* ensure_binary(): "none", "returned" or "raised"
    existed,         \* outcome of binary_path.exists(): "unchecked", "yes", "no"
    atCheck,         \* the file as it was when exists() was evaluated
    downloadCalled,  \* download_binary was called in this run
    requests,        \* URLs requested in this run, in order
    writeDone,       \* write_bytes returned in this run
    chmodDone,       \* the chmod statement was passed in this run
    spawns,          \* argument vectors handed to subprocess.run in this run
    child,           \* [state, rc] of the child process of this run
    result,          \* what main() did: return code or propagated exception
    downloadedOk     \* an earlier run downloaded and installed the binary

\* the orchestrator core of spec.md
VARIABLES
    ustate,          \* Upstream lifecycle state: Starting, Ready, Degraded, Closed
    retries,         \* failed reconnect attempts of a Degraded upstream
    registry,        \* Registry Snapshot: capability name -> owners, in order
    pending,         \* Pending Request table: client request id -> entry
    emitted          \* replies handed to the client by the last step

orchVars == <<ustate, retries, registry, pending, emitted>>
envVars == <<system, machine, version>>
fsVars == <<cache_dir, file>>
runVars == <<pc, runs, args, plat, binary_path, url, response, err, ensure, existed,
             atCheck, downloadCalled, requests, writeDone, chmodDone, spawns,
             child, result, downloadedOk>>
launcherVars == <<envVars, fsVars, runVars>>
vars == <<launcherVars, orchVars>>

NoChild == [state |-> "none", rc |-> 0]

(* spec.md 3: the orchestrator's data model *)
Upstreams == {"A", "B"}
Caps == {"search", "alpha", "beta"}
\* the catalog each upstream advertises in its handshake
Catalog(u) == IF u = "A" THEN {"search", "alpha"} ELSE {"search", "beta"}
ReqIds == 1..MaxReqIds
NoPending == [upstream |-> "", cap |-> "", tried |-> {}]

\* the orchestrator at configuration load: every upstream Starting, no catalog
OrchFresh ==
    /\ ustate = [u \in Upstreams |-> "Starting"]
    /\ retries = [u \in Upstreams |-> 0]
    /\ registry = [c \in Caps |-> <<>>]
    /\ pending = [r \in ReqIds |-> NoPending]
    /\ emitted = {}

\* the state before the first main(): nothing cached, nothing running
Fresh ==
    /\ cache_dir = FALSE
    /\ file = NoFile
    /\ pc = "idle"
    /\ runs = 0
    /\ args = <<>>
    /\ plat = NoPlat
    /\ binary_path = NoStr
    /\ url = NoStr
    /\ response = NoResponse
    /\ err = ""
    /\ ensure = "none"
    /\ existed = "unchecked"
    /\ atCheck = NoFile
    /\ downloadCalled = FALSE
    /\ requests = <<>>
    /\ writeDone = FALSE
    /\ chmodDone = FALSE
    /\ spawns = <<>>
    /\ child = NoChild
    /\ result = NoResult
    /\ downloadedOk = FALSE

\* a machine with the package installed at one of RunVersions
Init ==
    /\ system \in Systems
    /\ machine \in Machines
    /\ version \in RunVersions
    /\ Fresh
    /\ OrchFresh

\* the inputs of the naming functions: any machine, any version string
NamingInit ==
    /\ system \in Systems
    /\ machine \in Machines
    /\ version \in Versions
    /\ Fresh
    /\ OrchFresh

\* platform info of this machine
Info == get_platform_info(system, machine)

(* ------------------------------- main() -------------------------------- *)
\* no main() run is in progress
Finished == pc \in {"idle", "done", "raised"}

\* the exception leaves ensure_binary() and reaches main()'s except clause
Raise(e) ==
    /\ err' = e
    /\ ensure' = "raised"
    /\ pc' = "except"

\* a new invocation of main() with its own sys.argv
MainStart ==
    /\ Finished
    /\ runs < MaxRuns
    /\ \E a \in ArgLists : args' = a
    /\ runs' = runs + 1
    /\ pc' = "mkdir"
    /\ downloadedOk' = (downloadedOk \/ (ensure = "returned" /\ downloadCalled))
    /\ plat' = NoPlat
    /\ binary_path' = NoStr
    /\ url' = NoStr
    /\ response' = NoResponse
    /\ err' = ""
    /\ ensure' = "none"
    /\ existed' = "unchecked"
    /\ atCheck' = NoFile
    /\ downloadCalled' = FALSE
    /\ requests' = <<>>
    /\ writeDone' = FALSE
    /\ chmodDone' = FALSE
    /\ spawns' = <<>>
    /\ child' = NoChild
    /\ result' = NoResult
    /\ UNCHANGED orchVars
    /\ UNCHANGED <<envVars, fsVars>>

\* get_binary_path: cache_dir.mkdir(parents=True, exist_ok=True)
MkCacheDir ==
    /\ pc = "mkdir"
    /\ \/ /\ cache_dir' = TRUE
          /\ pc' = "platform"
          /\ UNCHANGED <<err, ensure>>
       \/ /\ ~cache_dir
          /\ Raise("OSError")
          /\ UNCHANGED cache_dir
    /\ UNCHANGED orchVars
    /\ UNCHANGED <<envVars, file, runs, args, plat, binary_path, url, response, existed,
                   atCheck, downloadCalled, requests, writeDone, chmodDone, spawns,
                   child, result, downloadedOk>>

\* get_binary_path: get_platform_info() and the returned path
PathOfPlatform ==
    /\ pc = "platform"
    /\ plat' = Info
    /\ IF Info.ok
       THEN /\ binary_path' = get_binary_path(version, Info.goos, Info.goarch)
            /\ pc' = "exists"
            /\ UNCHANGED <<err, ensure>>
       ELSE /\ Raise(Info.err)
            /\ UNCHANGED binary_path
    /\ UNCHANGED orchVars
    /\ UNCHANGED <<envVars, fsVars, runs, args, url, response, existed, atCheck,
                   downloadCalled, requests, writeDone, chmodDone, spawns, child,
                   result, downloadedOk>>

\* an ensure_binary that downloads whether or not the file exists
ExistsCheck_AlwaysDownload ==
    /\ pc = "exists"
    /\ atCheck' = file
    /\ existed' = (IF file.exists THEN "yes" ELSE "no")
    /\ downloadCalled' = TRUE
    /\ pc' = "get"
    /\ UNCHANGED orchVars
    /\ UNCHANGED <<envVars, fsVars, runs, args, plat, binary_path, url, response, err,
                   ensure, requests, writeDone, chmodDone, spawns, child, result,
                   downloadedOk>>

\* ensure_binary: if not binary_path.exists(): download_binary(binary_path)
ExistsCheck ==
    /\ pc = "exists"
    /\ atCheck' = file
    /\ IF file.exists
       THEN /\ existed' = "yes"
            /\ ensure' = "returned"
            /\ pc' = "spawn"
            /\ UNCHANGED downloadCalled
       ELSE /\ existed' = "no"
            /\ downloadCalled' = TRUE
            /\ pc' = "get"
            /\ UNCHANGED ensure
    /\ UNCHANGED orchVars
    /\ UNCHANGED <<envVars, fsVars, runs, args, plat, binary_path, url, response, err,
                   requests, writeDone, chmodDone, spawns, child, result,
                   downloadedOk>>

\* download_binary: url = get_download_url(); response = client.get(url)
HttpGet ==
    /\ pc = "get"
    /\ url' = get_download_url(version, Info.goos, Info.goarch)
    /\ requests' = Append(requests, url')
    /\ \/ /\ Raise("TransportError")
          /\ UNCHANGED response
       \/ /\ \E st \in StatusCodes, body \in Bodies :
                 response' = [status |-> st, content |-> body]
          /\ pc' = "raise_for_status"
          /\ UNCHANGED <<err, ensure>>
    /\ UNCHANGED orchVars
    /\ UNCHANGED <<envVars, fsVars, runs, args, plat, binary_path, existed, atCheck,
                   downloadCalled, writeDone, chmodDone, spawns, child, result,
                   downloadedOk>>

\* download_binary: response.raise_for_status()
RaiseForStatus ==
    /\ pc = "raise_for_status"
    /\ IF is_success(response.status)
       THEN /\ pc' = "write"
            /\ UNCHANGED <<err, ensure>>
       ELSE Raise("HTTPStatusError")
    /\ UNCHANGED orchVars
    /\ UNCHANGED <<envVars, fsVars, runs, args, plat, binary_path, url, response, existed,
                   atCheck, downloadCalled, requests, writeDone, chmodDone, spawns,
                   child, result, downloadedOk>>

\* the file open("wb") leaves at dest once n bytes of data were written
Written(data, n, umask) ==
    [exists |-> TRUE, content |-> SubSeq(data, 1, n), mode |-> NewFileMode(umask)]

\* download_binary: dest.write_bytes(response.content)
WriteBytes ==
    /\ pc = "write"
    /\ \/ /\ Raise("OSError")                       \* open() fails
          /\ UNCHANGED <<file, writeDone>>
       \/ /\ \E um \in Umasks, n \in 0..Len(response.content) :
                 /\ n < Len(response.content) \/ n = 0
                 /\ file' = Written(response.content, n, um)
          /\ Raise("OSError")                       \* write() fails part-way
          /\ UNCHANGED writeDone
       \/ /\ \E um \in Umasks :
                 file' = Written(response.content, Len(response.content), um)
          /\ writeDone' = TRUE
          /\ pc' = "chmod"
          /\ UNCHANGED <<err, ensure>>
    /\ UNCHANGED orchVars
    /\ UNCHANGED <<envVars, cache_dir, runs, args, plat, binary_path, url, response,
                   existed, atCheck, downloadCalled, requests, chmodDone, spawns,
                   child, result, downloadedOk>>

\* download_binary: if platform.system() != "Windows": dest.chmod(...)
Chmod ==
    /\ pc = "chmod"
    /\ IF system # s_Windows
       THEN \/ /\ file' = [file EXCEPT !.mode = ChmodMode(file.mode)]
               /\ chmodDone' = TRUE
               /\ ensure' = "returned"
               /\ pc' = "spawn"
               /\ UNCHANGED err
            \/ /\ Raise("OSError")                  \* stat() or chmod() fails
               /\ UNCHANGED <<file, chmodDone>>
       ELSE /\ chmodDone' = TRUE
            /\ ensure' = "returned"
            /\ pc' = "spawn"
            /\ UNCHANGED <<file, err>>
    /\ UNCHANGED orchVars
    /\ UNCHANGED <<envVars, cache_dir, runs, args, plat, binary_path, url, response,
                   existed, atCheck, downloadCalled, requests, writeDone, spawns,
                   child, result, downloadedOk>>

\* an except clause that reports success
Except_ReturnsZero ==
    /\ pc = "except"
    /\ result' = [kind |-> "return", code |-> 0]
    /\ pc' = "done"
    /\ UNCHANGED orchVars
    /\ UNCHANGED <<envVars, fsVars, runs, args, plat, binary_path, url, response, err,
                   ensure, existed, atCheck, downloadCalled, requests, writeDone,
                   chmodDone, spawns, child, downloadedOk>>

\* main: except Exception as e: print(...); return 1
Except ==
    /\ pc = "except"
    /\ result' = [kind |-> "return", code |-> 1]
    /\ pc' = "done"
    /\ UNCHANGED orchVars
    /\ UNCHANGED <<envVars, fsVars, runs, args, plat, binary_path, url, response, err,
                   ensure, existed, atCheck, downloadCalled, requests, writeDone,
                   chmodDone, spawns, child, downloadedOk>>

\* whether the operating system can start the file at binary_path: it exists
\* and, except on Windows, its owner may execute it
CanExec(f) == f.exists /\ (system = s_Windows \/ Bit(f.mode, 6) = 1)

\* main: subprocess.run([str(binary_path)] + sys.argv[1:]) starts the child,
\* or raises when the file cannot be executed; nothing catches that exception
Spawn ==
    /\ pc = "spawn"
    /\ spawns' = Append(spawns, <<binary_path>> \o args)
    /\ IF CanExec(file)
       THEN /\ child' = [state |-> "running", rc |-> 0]
            /\ pc' = "wait"
            /\ UNCHANGED <<err, result>>
       ELSE /\ err' = "PermissionError"
            /\ result' = [kind |-> "raise", code |-> 0]
            /\ pc' = "raised"
            /\ UNCHANGED child
    /\ UNCHANGED orchVars
    /\ UNCHANGED <<envVars, fsVars, runs, args, plat, binary_path, url, response, ensure,
                   existed, atCheck, downloadCalled, requests, writeDone, chmodDone,
                   downloadedOk>>

\* main: subprocess.run waits for the child; return result.returncode
WaitChild ==
    /\ pc = "wait"
    /\ \E rc \in ReturnCodes :
          /\ child' = [state |-> "exited", rc |-> rc]
          /\ result' = [kind |-> "return", code |-> rc]
    /\ pc' = "done"
    /\ UNCHANGED orchVars
    /\ UNCHANGED <<envVars, fsVars, runs, args, plat, binary_path, url, response, err,
                   ensure, existed, atCheck, downloadCalled, requests, writeDone,
                   chmodDone, spawns, downloadedOk>>

Next ==
    \/ MainStart
    \/ MkCacheDir
    \/ PathOfPlatform
    \/ ExistsCheck
    \/ HttpGet
    \/ RaiseForStatus
    \/ WriteBytes
    \/ Chmod
    \/ Except
    \/ Spawn
    \/ WaitChild

Spec == Init /\ [][Next]_vars

\* the calls of get_platform_info, get_binary_path and get_download_url of one
\* main() run, over every version string
NamingNext ==
    \/ MainStart
    \/ MkCacheDir
    \/ PathOfPlatform
    \/ ExistsCheck
    \/ HttpGet

NamingSpec == NamingInit /\ [][NamingNext]_vars

(* ------------------------- launcher properties ------------------------- *)
\* all three execute bits of a mode word
AllExecBits(mode) == Bit(mode, 6) = 1 /\ Bit(mode, 3) = 1 /\ Bit(mode, 0) = 1

\* C1: cache hit. When a file exists at get_binary_path() at the time of the
\* check, the run issues no HTTP request, the cached file's content and mode
\* stay as they were, and the path ensure_binary returns is get_binary_path();
\* download_binary is called if and only if the path did not exist at the check.
C1_CacheHitFrame ==
    /\ existed = "unchecked" => (~downloadCalled /\ requests = <<>>)
    /\ existed # "unchecked" =>
          /\ downloadCalled <=> ~atCheck.exists
          /\ (existed = "yes") <=> atCheck.exists
    /\ existed = "yes" =>
          /\ requests = <<>>
          /\ file = atCheck
          /\ ensure = "returned"
          /\ binary_path = CacheDir \o <<"/">> \o
                           CacheFileName(version, plat.goos, plat.goarch)

\* a completed run that found the binary in the cache and ran it
C1_Witness ==
    /\ existed = "yes"
    /\ pc = "done"
    /\ child.state = "exited"
    /\ runs = 2

\* C2: cache miss with a successful download. When ensure_binary returns after
\* downloading, the file at the path holds exactly the response body of a
\* success response and, off Windows, has the user, group and other execute
\* bits; the binary is spawned only after the write and the chmod; and a later
\* run on the same machine and version takes the cache-hit path, no download.
C2_DownloadInstalls ==
    /\ (ensure = "returned" /\ downloadCalled) =>
          /\ is_success(response.status)
          /\ Len(requests) = 1
          /\ file.exists
          /\ file.content = response.content
          /\ system # s_Windows => AllExecBits(file.mode)
    /\ (spawns # <<>> /\ downloadCalled) => (writeDone /\ chmodDone)
    /\ (downloadedOk /\ existed # "unchecked") =>
          /\ existed = "yes"
          /\ ~downloadCalled
          /\ requests = <<>>

\* a run that hits the cache an earlier run of the same behaviour filled
C2_Witness ==
    /\ downloadedOk
    /\ existed = "yes"
    /\ system # s_Windows
    /\ AllExecBits(file.mode)
    /\ file.content = <<1, 2>>
    /\ child.state = "exited"

\* C3: whenever ensure_binary() succeeds, main() spawns the binary exactly once
\* with [binary_path] + sys.argv[1:], waits for it, and returns exactly the
\* child's return code.
C3_SpawnReturnsChildCode ==
    (Finished /\ ensure = "returned") =>
        /\ spawns = << <<binary_path>> \o args >>
        /\ child.state = "exited"
        /\ result = [kind |-> "return", code |-> child.rc]

\* C4: if ensure_binary() raises, main() returns 1 and never spawns the binary;
\* the binary is spawned only in runs where ensure_binary() returned normally.
C4_FailureReturnsOne ==
    /\ ensure = "raised" =>
          /\ spawns = <<>>
          /\ child.state = "none"
          /\ pc \in {"except", "done"}
          /\ pc = "done" => result = [kind |-> "return", code |-> 1]
    /\ (spawns # <<>> \/ child.state # "none") => ensure = "returned"

\* a run whose download was written only in part and which returned 1
C4_Witness ==
    /\ ensure = "raised"
    /\ pc = "done"
    /\ writeDone = FALSE
    /\ file.exists
    /\ result.code = 1

\* equality of two strings up to the case of their letters
EqNoCase(a, b) ==
    Len(a) = Len(b) /\ \A i \in 1..Len(a) : LowerChar(a[i]) = LowerChar(b[i])

AnyNoCase(a, S) == \E b \in S : EqNoCase(a, b)

\* C7: get_platform_info() returns (goos, goarch) with goos the lower-cased
\* system name when it is darwin, linux or windows, goarch amd64 for x86_64 or
\* amd64 and arm64 for arm64 or aarch64, case-insensitively; any other system
\* raises 'Unsupported platform' whatever the machine, and a supported system
\* with any other machine raises 'Unsupported architecture'.
C7_PlatformInfo ==
    plat # NoPlat =>
        LET sysOk  == AnyNoCase(system, {s_darwin, s_linux, s_windows})
            isAmd  == AnyNoCase(machine, {s_x86_64, s_amd64})
            isArm  == AnyNoCase(machine, {s_arm64, s_aarch64})
        IN  /\ ~sysOk =>
                 /\ ~plat.ok
                 /\ plat.err = "Unsupported platform"
                 /\ err = "Unsupported platform"
                 /\ ensure = "raised"
            /\ (sysOk /\ ~isAmd /\ ~isArm) =>
                 /\ ~plat.ok
                 /\ plat.err = "Unsupported architecture"
                 /\ err = "Unsupported architecture"
                 /\ ensure = "raised"
            /\ (sysOk /\ (isAmd \/ isArm)) =>
                 /\ plat.ok
                 /\ plat.goos \in {s_darwin, s_linux, s_windows}
                 /\ EqNoCase(plat.goos, system)
                 /\ plat.goarch = (IF isAmd THEN s_amd64 ELSE s_arm64)

\* platform.system() = "Windows", platform.machine() = "AMD64" resolved
C7_Witness ==
    /\ plat.ok
    /\ system = s_Windows
    /\ machine = <<"A","M","D","6","4">>
    /\ plat.goos = s_windows
    /\ plat.goarch = s_amd64

\* the part of the URL between ".../releases/download/" and the "/" before the
\* asset name
UrlTag(u, goos, goarch) ==
    SubSeq(u, Len(UrlHead) + Len(REPO) + Len(UrlReleases) + 1,
              Len(u) - Len(AssetName(goos, goarch)) - 1)

\* C8: get_binary_path() and get_download_url() name the same platform: both
\* end in -<goos>-<goarch>, and in '.exe' exactly when goos is windows; the
\* cache file name is slop-mcp-<version>-<goos>-<goarch>[.exe], so different
\* versions or platforms never share a cache path; the URL's release tag is
\* the version with 'v' prefixed iff it does not start with 'v', and applying
\* the prefix rule to the tag leaves it unchanged.
C8_Naming ==
    url # NoStr =>
        LET goos   == plat.goos
            goarch == plat.goarch
            tail   == s_dash \o goos \o s_dash \o goarch
            ext    == IF goos = s_windows THEN s_exe ELSE <<>>
            tag    == UrlTag(url, goos, goarch)
        IN  /\ EndsWith(binary_path, tail \o ext)
            /\ EndsWith(url, tail \o ext)
            /\ EndsWith(binary_path, s_exe) <=> goos = s_windows
            /\ EndsWith(url, s_exe) <=> goos = s_windows
            /\ binary_path = CacheDir \o <<"/">> \o BINARY_NAME \o s_dash \o version
                                 \o tail \o ext
            /\ \A v \in Versions, g \in {s_darwin, s_linux, s_windows},
                  a \in {s_amd64, s_arm64} :
                  get_binary_path(v, g, a) = binary_path =>
                      (v = version /\ g = goos /\ a = goarch)
            /\ url = UrlHead \o REPO \o UrlReleases \o tag \o <<"/">> \o BINARY_NAME
                         \o tail \o ext
            /\ tag = (IF version # <<>> /\ version[1] = "v" THEN version
                      ELSE s_v \o version)
            /\ tag # <<>> /\ tag[1] = "v"
            /\ ReleaseTag(tag) = tag

\* both names computed on Windows for a version that already starts with "v"
C8_Witness ==
    /\ url # NoStr
    /\ plat.goos = s_windows
    /\ version = <<"v", "-">>
    /\ EndsWith(binary_path, s_exe)

(* ------------------- the orchestrator core (spec.md) -------------------- *)
\* the launcher's state while the orchestrator runs
LauncherIdle ==
    /\ system = s_linux
    /\ machine = s_x86_64
    /\ version = VERSION_0
    /\ Fresh

OrchInit == LauncherIdle /\ OrchFresh

\* 4.2 register(upstream_id, catalog): first-registered wins, later owners
\* of the same name are kept behind it as fallbacks
Register(reg, u, catalog) ==
    [c \in Caps |-> IF c \in catalog THEN Append(reg[c], u) ELSE reg[c]]

\* 4.1 eviction of a Closed upstream from the registry
Evict(reg, u) ==
    [c \in Caps |-> LET NotU(x) == x # u IN SelectSeq(reg[c], NotU)]

\* a routing filter that forgets the lifecycle state of the owners
Routable_AnyState(c, tried) ==
    LET Ok(x) == x \notin tried
    IN  SelectSeq(registry[c], Ok)

\* owners of a capability that routing may use: Ready, and not yet tried
Routable(c, tried) ==
    LET Ok(x) == ustate[x] = "Ready" /\ x \notin tried
    IN  SelectSeq(registry[c], Ok)

\* 4.2 lookup(kind, name): the first routable owner, or "" (UnknownCapability)
Lookup(c) == IF Routable(c, {}) = <<>> THEN "" ELSE Head(Routable(c, {}))

\* 4.3 the in-flight count of an upstream
InFlight(u) == Cardinality({r \in ReqIds : pending[r].upstream = u})

\* 4.1 connect(spec): handshake and catalog, or UpstreamUnavailable
Connect(u) ==
    /\ ustate[u] = "Starting"
    /\ \/ /\ ustate' = [ustate EXCEPT ![u] = "Ready"]
          /\ registry' = Register(registry, u, Catalog(u))
       \/ /\ ustate' = [ustate EXCEPT ![u] = "Closed"]
          /\ UNCHANGED registry
    /\ emitted' = {}
    /\ UNCHANGED <<retries, pending, launcherVars>>

\* 4.3 dispatch(client_request): resolve, apply backpressure, forward
Dispatch(r, c) ==
    /\ pending[r] = NoPending
    /\ IF Lookup(c) = ""
       THEN /\ emitted' = {[id |-> r, code |-> "UnknownCapability"]}
            /\ UNCHANGED pending
       ELSE IF InFlight(Lookup(c)) >= MaxInFlight
       THEN /\ emitted' = {[id |-> r, code |-> "Overloaded"]}
            /\ UNCHANGED pending
       ELSE /\ pending' = [pending EXCEPT ![r] =
                  [upstream |-> Lookup(c), cap |-> c, tried |-> {Lookup(c)}]]
            /\ emitted' = {}
    /\ UNCHANGED <<ustate, retries, registry, launcherVars>>

\* 4.1 send: the upstream answers the request
Respond(r) ==
    /\ pending[r] # NoPending
    /\ ustate[pending[r].upstream] = "Ready"
    /\ pending' = [pending EXCEPT ![r] = NoPending]
    /\ emitted' = {[id |-> r, code |-> "Response"]}
    /\ UNCHANGED <<ustate, retries, registry, launcherVars>>

\* a timeout handler that retries without recording the upstream it tried
Timeout_ForgetsTried(r) ==
    /\ pending[r] # NoPending
    /\ LET fb == Routable(pending[r].cap, pending[r].tried)
       IN  IF fb # <<>>
           THEN /\ pending' = [pending EXCEPT ![r] =
                      [upstream |-> Head(fb), cap |-> pending[r].cap,
                       tried |-> pending[r].tried]]
                /\ emitted' = {}
           ELSE /\ pending' = [pending EXCEPT ![r] = NoPending]
                /\ emitted' = {[id |-> r, code |-> "UpstreamTimeout"]}
    /\ UNCHANGED <<ustate, retries, registry, launcherVars>>

\* 4.3 on UpstreamTimeout: retry against a fallback owner, else surface it
Timeout(r) ==
    /\ pending[r] # NoPending
    /\ LET fb == Routable(pending[r].cap, pending[r].tried)
       IN  IF fb # <<>>
           THEN /\ pending' = [pending EXCEPT ![r] =
                      [upstream |-> Head(fb), cap |-> pending[r].cap,
                       tried |-> pending[r].tried \cup {Head(fb)}]]
                /\ emitted' = {}
           ELSE /\ pending' = [pending EXCEPT ![r] = NoPending]
                /\ emitted' = {[id |-> r, code |-> "UpstreamTimeout"]}
    /\ UNCHANGED <<ustate, retries, registry, launcherVars>>

\* 4.1 a transient I/O error: Ready -> Degraded
Degrade(u) ==
    /\ ustate[u] = "Ready"
    /\ ustate' = [ustate EXCEPT ![u] = "Degraded"]
    /\ retries' = [retries EXCEPT ![u] = 0]
    /\ emitted' = {}
    /\ UNCHANGED <<registry, pending, launcherVars>>

\* 4.1 a retry with backoff succeeds: Degraded -> Ready
Recover(u) ==
    /\ ustate[u] = "Degraded"
    /\ ustate' = [ustate EXCEPT ![u] = "Ready"]
    /\ retries' = [retries EXCEPT ![u] = 0]
    /\ emitted' = {}
    /\ UNCHANGED <<registry, pending, launcherVars>>

\* 4.1 a retry fails; with the budget exhausted: Closed, evicted
RetryFail(u) ==
    /\ ustate[u] = "Degraded"
    /\ retries[u] < RetryBudget
    /\ retries' = [retries EXCEPT ![u] = retries[u] + 1]
    /\ IF retries[u] + 1 >= RetryBudget
       THEN /\ ustate' = [ustate EXCEPT ![u] = "Closed"]
            /\ registry' = Evict(registry, u)
       ELSE UNCHANGED <<ustate, registry>>
    /\ emitted' = {}
    /\ UNCHANGED <<pending, launcherVars>>

\* 4.4 client disconnect: every Pending Request of the session is cancelled
Disconnect ==
    /\ \E r \in ReqIds : pending[r] # NoPending
    /\ pending' = [r \in ReqIds |-> NoPending]
    /\ emitted' = {[id |-> r, code |-> "Cancelled"] : r \in {x \in ReqIds : pending[x] # NoPending}}
    /\ UNCHANGED <<ustate, retries, registry, launcherVars>>

OrchNext ==
    \/ \E u \in Upstreams : Connect(u)
    \/ \E r \in ReqIds, c \in Caps : Dispatch(r, c)
    \/ \E r \in ReqIds : Respond(r)
    \/ \E r \in ReqIds : Timeout(r)
    \/ \E u \in Upstreams : Degrade(u)
    \/ \E u \in Upstreams : Recover(u)
    \/ \E u \in Upstreams : RetryFail(u)
    \/ Disconnect

OrchSpec == OrchInit /\ [][OrchNext]_vars

\* 5: every request has a timeout, so the timer of a Pending Request fires
OrchFairSpec == OrchSpec /\ \A r \in ReqIds : WF_vars(Timeout(r))

(* ----------------------- orchestrator properties ----------------------- *)
\* a step that removes r from the Pending Request table tells the client why
RemovalReported(r) ==
    (pending[r] # NoPending /\ pending'[r] = NoPending) =>
        \E m \in emitted' :
            m.id = r /\ m.code \in {"Response", "UpstreamTimeout", "Cancelled"}

\* C5: every Pending Request is eventually removed from the Pending Request
\* table (by a response, an error or a timeout), so no entry stays forever
\* under sustained load, and each removal is preceded by a response or a
\* reported error for that request.
C5_PendingRemoved ==
    /\ \A r \in ReqIds : (pending[r] # NoPending) ~> (pending[r] = NoPending)
    /\ [][\A r \in ReqIds : RemovalReported(r)]_vars

\* a request that timed out on its last owner: reported and removed, while
\* another request is still pending
C5_Witness ==
    /\ \E m \in emitted : m.code = "UpstreamTimeout" /\ pending[m.id] = NoPending
    /\ \E r \in ReqIds : pending[r] # NoPending /\ Cardinality(pending[r].tried) = 2

\* the owners of a capability in the registry, as a set
Owners(c) == {registry[c][i] : i \in 1..Len(registry[c])}

\* a step gives r a (new) target upstream only if that upstream is Ready
TargetsReady(r) ==
    (pending'[r] # NoPending /\ pending'[r].upstream # pending[r].upstream) =>
        ustate[pending'[r].upstream] = "Ready"

\* a Degraded upstream whose retry budget runs out is Closed and evicted
ExhaustedIsClosed(u) ==
    (ustate[u] = "Degraded" /\ retries'[u] >= RetryBudget) =>
        (ustate'[u] = "Closed" /\ \A c \in Caps : registry'[c] = Evict(registry, u)[c])

\* C6: a Degraded upstream is never chosen as the target of a dispatch until
\* it is Ready again; while it is Degraded a capability it alone owns resolves
\* to UnknownCapability, and one with other owners to a Ready fallback or to
\* UnknownCapability; a Degraded upstream that exhausts its retry budget
\* becomes Closed and is evicted from the registry.
C6_DegradedExcluded ==
    /\ [][\A r \in ReqIds : TargetsReady(r)]_vars
    /\ [][\A u \in Upstreams : ExhaustedIsClosed(u)]_vars
    /\ [](\A u \in Upstreams :
            /\ ustate[u] = "Degraded" =>
                  /\ retries[u] < RetryBudget
                  /\ \A c \in Caps :
                        /\ Lookup(c) # u
                        /\ Owners(c) = {u} => Lookup(c) = ""
                        /\ Lookup(c) # "" => ustate[Lookup(c)] = "Ready"
            /\ ustate[u] = "Closed" => \A c \in Caps : u \notin Owners(c))

\* A, first owner of "search", is Degraded and a request for "search" was
\* dispatched straight to the fallback B; B alone was closed after its budget
C6_Witness ==
    /\ ustate["A"] = "Degraded"
    /\ retries["A"] = 1
    /\ registry["search"] = <<"A", "B">>
    /\ registry["alpha"] = <<"A">>
    /\ \E r \in ReqIds : pending[r].cap = "search" /\ pending[r].upstream = "B"
                          /\ pending[r].tried = {"B"}

====
